---- MODULE Spec2Model ----
\* Model of scanner-cli (passlickdev/scanner-cli): the input sanitizer, the
\* mode resolver and the session loop of main() with its idle timer thread.
\*
\* Strings are sequences of character codes (integers), so that prefix
\* tests, slicing and the CSI regular expression are computed, not assumed.
EXTENDS Integers, Sequences, FiniteSets, TLC

VARIABLES
    modes,          \* Dict[str, Mode] in insertion order: a sequence of Mode records
    default_mode,   \* name of modes[args.default_mode]
    idle_timeout,   \* args.idle_timeout (0 stands for None / 0: both falsy)
    current_mode,   \* name of the session's current mode
    idle_timer,     \* handle: a timer id, or NoTimer for None
    timers,         \* timer id -> state of that threading.Timer object
    pc,             \* position of the foreground loop
    line,           \* local of main(): what sys.stdin.readline() returned
    barcode,        \* local of main(): the (possibly stripped) token
    raw_barcode,    \* local of main(): the sanitized token
    triggered_mode, \* local of main(): find_mode's result (a name, or NoMode)
    effective_mode, \* local of main(): name of the mode used for the dispatch
    ephemeral,      \* local of main()
    extra,          \* local of main(): the text Prompt.ask returned
    events,         \* log_event records emitted by the last step
    sent,           \* payloads handed to api.send by the last step
    resolved,       \* tokens handed to find_mode by the last step
    accesses,       \* reads and writes of current_mode / idle_timer made by the
                    \* last step, each with whether mode_lock was held
    san_in,         \* sanitizer harness: the argument
    san_out,        \* sanitizer harness: results of successive applications
    eval_in,        \* evaluator harness: the argument
    eval_out        \* evaluator harness: <<>>, then <<the call's outcome>>

vars == <<modes, default_mode, idle_timeout, current_mode, idle_timer, timers,
          pc, line, barcode, raw_barcode, triggered_mode, effective_mode,
          ephemeral, extra, events, sent, resolved, accesses, san_in, san_out,
          eval_in, eval_out>>

config_vars == <<modes, default_mode, idle_timeout>>
session_vars == <<current_mode, idle_timer, timers>>
local_vars ==
    <<line, barcode, raw_barcode, triggered_mode, effective_mode, ephemeral,
      extra>>
harness_vars == <<san_in, san_out, eval_in, eval_out>>

-----------------------------------------------------------------------------
\* Character codes

ESC == 27
LBRACKET == 91
CSI_PARAM_LO == 48
CSI_PARAM_HI == 63
CSI_INTER_LO == 32
CSI_INTER_HI == 47
CSI_FINAL_LO == 64
CSI_FINAL_HI == 126

\* s[i..] (Python s[i-1:])
Drop(s, n) == SubSeq(s, n + 1, Len(s))

\* str.startswith
StartsWith(s, p) == Len(p) <= Len(s) /\ SubSeq(s, 1, Len(p)) = p

-----------------------------------------------------------------------------
\* Sanitizer

\* Length of the longest run of characters with codes in lo..hi starting at
\* position i of s (a greedy character-class star).
RECURSIVE Run(_, _, _, _)
Run(s, i, lo, hi) ==
    IF i <= Len(s) /\ s[i] >= lo /\ s[i] <= hi
    THEN 1 + Run(s, i + 1, lo, hi)
    ELSE 0

\* Length of the match of _ANSI_CSI_RE at position i of s, 0 when there is
\* none. The three character classes are disjoint, so the greedy match is the
\* only candidate.
CsiMatchLen(s, i) ==
    IF i + 1 <= Len(s) /\ s[i] = ESC /\ s[i + 1] = LBRACKET
    THEN LET np == Run(s, i + 2, CSI_PARAM_LO, CSI_PARAM_HI)
             ni == Run(s, i + 2 + np, CSI_INTER_LO, CSI_INTER_HI)
             f  == i + 2 + np + ni
         IN IF f <= Len(s) /\ s[f] >= CSI_FINAL_LO /\ s[f] <= CSI_FINAL_HI
            THEN 2 + np + ni + 1
            ELSE 0
    ELSE 0

\* _ANSI_CSI_RE.sub("", s) from position i on: leftmost, non-overlapping.
RECURSIVE CsiSub(_, _)
CsiSub(s, i) ==
    IF i > Len(s) THEN <<>>
    ELSE LET n == CsiMatchLen(s, i)
         IN IF n > 0 THEN CsiSub(s, i + n)
            ELSE <<s[i]>> \o CsiSub(s, i + 1)

\* str.replace("\x1b", "")
RECURSIVE RemoveEsc(_)
RemoveEsc(s) ==
    IF s = <<>> THEN <<>>
    ELSE IF Head(s) = ESC THEN RemoveEsc(Tail(s))
    ELSE <<Head(s)>> \o RemoveEsc(Tail(s))

sanitize_input_noreplace(value) ==
    IF value = <<>> THEN value ELSE CsiSub(value, 1)

sanitize_input(value) ==
    IF value = <<>> THEN value ELSE RemoveEsc(CsiSub(value, 1))

\* str.strip() on the ASCII range
IsSpace(c) == c \in (9..13) \cup (28..32)

RECURSIVE LStrip(_)
LStrip(s) ==
    IF s # <<>> /\ IsSpace(Head(s)) THEN LStrip(Tail(s)) ELSE s

RECURSIVE RStrip(_)
RStrip(s) ==
    IF s # <<>> /\ IsSpace(s[Len(s)]) THEN RStrip(SubSeq(s, 1, Len(s) - 1)) ELSE s

Strip(s) == RStrip(LStrip(s))

-----------------------------------------------------------------------------
\* Modes and mode resolution (config.py)

NoMode == "<None>"
NoTimer == 0

\* A Mode as far as the decision layer reads it. `trigger` is only ever used
\* for truthiness and membership, so it is a set (None and [] are the empty
\* set); `prefix_trigger` is an ordered list.
Mode(n, trig, prefs, strip, req) ==
    [name |-> n, trigger |-> trig, prefix_trigger |-> prefs,
     strip_prefix |-> strip, enable_trigger_req |-> req,
     enable_input |-> FALSE, eval_mathops |-> TRUE]

\* A mode with enable_input set
InputMode(m, evalm) == [m EXCEPT !.enable_input = TRUE, !.eval_mathops = evalm]

\* modes[name]
ModeNamed(ms, n) == ms[CHOOSE i \in 1..Len(ms) : ms[i].name = n]

\* `mode.trigger and barcode in mode.trigger`
TriggerHit(m, b) == m.trigger # {} /\ b \in m.trigger

\* The `for pref in mode.prefix_trigger` loop from index j on: the index of
\* the first prefix that b starts with, 0 when there is none.
RECURSIVE FirstPrefixFrom(_, _, _)
FirstPrefixFrom(m, b, j) ==
    IF j > Len(m.prefix_trigger) THEN 0
    ELSE IF StartsWith(b, m.prefix_trigger[j]) THEN j
    ELSE FirstPrefixFrom(m, b, j + 1)

\* As FirstPrefix, taking the last matching prefix instead of the first.
LastPrefix(m, b) ==
    IF \E j \in 1..Len(m.prefix_trigger) : StartsWith(b, m.prefix_trigger[j])
    THEN CHOOSE j \in 1..Len(m.prefix_trigger) :
            /\ StartsWith(b, m.prefix_trigger[j])
            /\ \A k \in 1..Len(m.prefix_trigger) :
                  StartsWith(b, m.prefix_trigger[k]) => k <= j
    ELSE 0

FirstPrefix(m, b) == FirstPrefixFrom(m, b, 1)

\* First loop of find_mode, from index i on.
RECURSIVE FindByTrigger(_, _, _)
FindByTrigger(ms, b, i) ==
    IF i > Len(ms) THEN NoMode
    ELSE IF TriggerHit(ms[i], b) THEN ms[i].name
    ELSE FindByTrigger(ms, b, i + 1)

\* Second loop of find_mode, from index i on.
RECURSIVE FindByPrefix(_, _, _)
FindByPrefix(ms, b, i) ==
    IF i > Len(ms) THEN NoMode
    ELSE IF FirstPrefix(ms[i], b) # 0 THEN ms[i].name
    ELSE FindByPrefix(ms, b, i + 1)

find_mode_prefix_first(ms, b) ==
    IF FindByPrefix(ms, b, 1) # NoMode THEN FindByPrefix(ms, b, 1)
    ELSE FindByTrigger(ms, b, 1)

find_mode(ms, b) ==
    IF FindByTrigger(ms, b, 1) # NoMode THEN FindByTrigger(ms, b, 1)
    ELSE FindByPrefix(ms, b, 1)

-----------------------------------------------------------------------------
\* Inputs

NL == 10

\* "D", "S", "T", "X", "XT", "X1", "9"
tD == <<68>>
tS == <<83>>
tT == <<84>>
tX == <<88>>
tXT == <<88, 84>>
tX1 == <<88, 49>>
t9 == <<57>>
\* ESC [ m
csiReset == <<ESC, LBRACKET, 109>>

\* Lines as sys.stdin.readline() returns them.
Lines ==
    { tD \o <<NL>>, tS \o <<NL>>, tT \o <<NL>>, tXT \o <<NL>>, tX1 \o <<NL>>,
      csiReset \o t9 \o <<NL>>, csiReset \o <<NL>> }

\* Mode collections of the session specification.
SessionModes ==
    { << Mode("DEFAULT", {tD}, <<>>, FALSE, FALSE),
         Mode("A", {tS}, <<tX>>, strip, FALSE),
         Mode("B", trigB, <<>>, FALSE, TRUE) >> :
      strip \in BOOLEAN, trigB \in {{tT}, {tT, tXT}} }

\* Mode collections of the resolver specification: overlapping triggers and
\* prefixes in every order.
ResolveModes ==
    { << Mode("DEFAULT", trigD, <<>>, FALSE, FALSE),
         Mode("A", trigA, prefA, stripA, FALSE),
         Mode("B", trigB, prefB, stripB, TRUE) >> :
      trigD \in {{}, {tD}},
      trigA \in {{}, {tS}, {tS, tXT}},
      prefA \in {<<>>, <<tX>>, <<tX, tXT>>, <<tXT, tX>>},
      stripA \in BOOLEAN,
      trigB \in {{tT}, {tXT}, {tS}},
      prefB \in {<<>>, <<tX>>, <<tT>>},
      stripB \in BOOLEAN }

\* --idle-timeout value used when one is configured
IdleSeconds == 5

\* Bound: timers whose callback has been started and not yet run
MaxFiring == 2

TimerIds == 1..(MaxFiring + 2)

-----------------------------------------------------------------------------
\* Events and payloads

Event(e, m, reason, trig) ==
    [event |-> e, mode |-> m, reason |-> reason, trigger |-> trig]

\* The payload dict; an absent key is the empty sequence
Payload(b, m, action, raw) ==
    [barcode |-> b, mode |-> m, action |-> action,
     raw_barcode |-> IF raw # b THEN <<raw>> ELSE <<>>, input |-> <<>>]

SendOutcomes == {"sent", "error", "exception"}

-----------------------------------------------------------------------------
\* Initial states

SessionInit ==
    /\ default_mode = "DEFAULT"
    /\ current_mode = default_mode
    /\ idle_timer = NoTimer
    /\ timers = [t \in TimerIds |-> "unused"]
    /\ pc = "read"
    /\ line = <<>>
    /\ barcode = <<>>
    /\ raw_barcode = <<>>
    /\ triggered_mode = NoMode
    /\ effective_mode = default_mode
    /\ ephemeral = FALSE
    /\ extra = <<>>
    /\ events = <<Event("startup", default_mode, "", <<>>)>>
    /\ sent = <<>>
    /\ resolved = <<>>
    /\ accesses = {}

Init ==
    /\ modes \in SessionModes
    /\ idle_timeout \in {0, IdleSeconds}
    /\ SessionInit
    /\ san_in = <<>>
    /\ san_out = <<>>
    /\ eval_in = <<>>
    /\ eval_out = <<>>

-----------------------------------------------------------------------------
\* _eval_mathops: the arithmetic evaluator applied to the extra input
\*
\* Python integers are unbounded; they are modelled as a sign and a magnitude,
\* the magnitude being the sequence of decimal digits, least significant
\* first, without high-order zeros (zero is the empty sequence).

RECURSIVE Norm(_)
Norm(a) ==
    IF a = <<>> THEN <<>>
    ELSE IF a[Len(a)] = 0 THEN Norm(SubSeq(a, 1, Len(a) - 1))
    ELSE a

RECURSIVE AddC(_, _, _)
AddC(a, b, c) ==
    IF a = <<>> /\ b = <<>> THEN (IF c = 0 THEN <<>> ELSE <<c>>)
    ELSE LET x == IF a = <<>> THEN 0 ELSE a[1]
             y == IF b = <<>> THEN 0 ELSE b[1]
             s == x + y + c
         IN  <<s % 10>> \o AddC(IF a = <<>> THEN <<>> ELSE Tail(a),
                                IF b = <<>> THEN <<>> ELSE Tail(b),
                                s \div 10)

NatAdd(a, b) == Norm(AddC(a, b, 0))

\* a - b for a >= b
RECURSIVE SubB(_, _, _)
SubB(a, b, borrow) ==
    IF a = <<>> THEN <<>>
    ELSE LET y == IF b = <<>> THEN 0 ELSE b[1]
             d == a[1] - y - borrow
         IN  <<IF d < 0 THEN d + 10 ELSE d>>
                \o SubB(Tail(a), IF b = <<>> THEN <<>> ELSE Tail(b),
                        IF d < 0 THEN 1 ELSE 0)

NatSub(a, b) == Norm(SubB(a, b, 0))

RECURSIVE NatLess(_, _)
NatLess(a, b) ==
    IF Len(a) # Len(b) THEN Len(a) < Len(b)
    ELSE IF a = <<>> THEN FALSE
    ELSE IF a[Len(a)] # b[Len(b)] THEN a[Len(a)] < b[Len(b)]
    ELSE NatLess(SubSeq(a, 1, Len(a) - 1), SubSeq(b, 1, Len(b) - 1))

RECURSIVE MulD(_, _, _)
MulD(a, d, c) ==
    IF a = <<>> THEN (IF c = 0 THEN <<>> ELSE <<c>>)
    ELSE LET p == a[1] * d + c
         IN  <<p % 10>> \o MulD(Tail(a), d, p \div 10)

RECURSIVE NatMul(_, _)
NatMul(a, b) ==
    IF b = <<>> THEN <<>>
    ELSE NatAdd(MulD(a, b[1], 0), <<0>> \o NatMul(a, Tail(b)))

\* a ** n by repeated squaring
RECURSIVE NatPow(_, _)
NatPow(a, n) ==
    IF n = 0 THEN <<1>>
    ELSE LET h == NatPow(a, n \div 2)
             sq == NatMul(h, h)
         IN  IF n % 2 = 1 THEN NatMul(a, sq) ELSE sq

\* The number of times b fits into r, and what is left (r < 10 * b)
RECURSIVE CountSub(_, _)
CountSub(r, b) ==
    IF NatLess(r, b) THEN [q |-> 0, r |-> r]
    ELSE LET n == CountSub(NatSub(r, b), b)
         IN  [q |-> n.q + 1, r |-> n.r]

\* Quotient and remainder of a by b, b # 0
RECURSIVE NatDivMod(_, _)
NatDivMod(a, b) ==
    IF a = <<>> THEN [q |-> <<>>, r |-> <<>>]
    ELSE LET hi == NatDivMod(Tail(a), b)
             c  == CountSub(Norm(<<a[1]>> \o hi.r), b)
         IN  [q |-> Norm(<<c.q>> \o hi.q), r |-> c.r]

RECURSIVE NatToInt(_)
NatToInt(a) == IF a = <<>> THEN 0 ELSE a[1] + 10 * NatToInt(Tail(a))

RECURSIVE Reverse(_)
Reverse(s) == IF s = <<>> THEN <<>> ELSE Reverse(Tail(s)) \o <<s[1]>>

\* Character codes of the expression syntax
QUOTE == 34
PERCENT == 37
APOSTROPHE == 39
LPAREN == 40
RPAREN == 41
STAR == 42
PLUS == 43
MINUS == 45
SLASH == 47
ZERO == 48
NINE == 57
COLON == 58
SEMICOLON == 59
RBRACKET == 93
BACKSLASH == 92
UNDERSCORE == 95
LBRACE == 123
RBRACE == 125
E_ACUTE == 233

\* The characters of line 57: the ASCII letters and _ [ ] { } ; : \ '
DisallowedChars ==
    (65..90) \cup (97..122) \cup
    {UNDERSCORE, LBRACKET, RBRACKET, LBRACE, RBRACE, SEMICOLON, COLON,
     BACKSLASH, APOSTROPHE}

\* Letters outside ASCII, which Python accepts in identifiers
NonAsciiLetters == {E_ACUTE}

IsAlpha(c) == c \in (65..90) \cup (97..122) \cup NonAsciiLetters

IsDigit(c) == c \in ZERO..NINE

IsIdStart(c) == c \in NonAsciiLetters

IsIdChar(c) == IsIdStart(c) \/ IsDigit(c)

\* Values: int, str and float objects
IntVal(neg, mag) == [type |-> "int", neg |-> neg /\ mag # <<>>, mag |-> mag]

StrVal(s) == [type |-> "str", s |-> s]

\* A float whose value is the fraction num / den (den # 0)
FloatVal(neg, num, den) ==
    [type |-> "float", neg |-> neg /\ num # <<>>, num |-> num, den |-> den]

\* A construct outside the fragment of Python modelled here: evaluating it
\* stops the check instead of yielding a made-up value.
Unmodelled == CHOOSE v \in {} : TRUE

\* 10**12
LiteralBound == NatPow(<<0, 1>>, 12)

\* The value of a decimal literal (digit characters, most significant first)
LiteralValue(digits) ==
    IntVal(FALSE, Norm(Reverse([i \in 1..Len(digits) |-> digits[i] - ZERO])))

-----------------------------------------------------------------------------
\* ast.parse(expr, mode="eval"): tokens

Tok(k, v) == [k |-> k, v |-> v]

\* The length of the longest prefix of s made of digits
RECURSIVE DigitRun(_)
DigitRun(s) == IF s # <<>> /\ IsDigit(s[1]) THEN 1 + DigitRun(Tail(s)) ELSE 0

\* The length of the longest prefix of s made of identifier characters
RECURSIVE IdRun(_)
IdRun(s) == IF s # <<>> /\ IsIdChar(s[1]) THEN 1 + IdRun(Tail(s)) ELSE 0

\* The index of the first occurrence of the sequence pat in s, 0 if none
RECURSIVE IndexOf(_, _)
IndexOf(pat, s) ==
    IF Len(s) < Len(pat) THEN 0
    ELSE IF SubSeq(s, 1, Len(pat)) = pat THEN 1
    ELSE LET i == IndexOf(pat, Tail(s)) IN IF i = 0 THEN 0 ELSE i + 1

\* A decimal integer literal: no leading zero unless all digits are zero
ValidDecimal(digits) ==
    \/ digits[1] # ZERO
    \/ \A i \in 1..Len(digits) : digits[i] = ZERO

RECURSIVE Tokenize(_)
Tokenize(s) ==
    IF s = <<>> THEN <<>>
    ELSE LET c == s[1] IN
    CASE c = 32 -> Tokenize(Tail(s))
      [] IsDigit(c) ->
            LET n == DigitRun(s)
                digits == SubSeq(s, 1, n)
                rest == Drop(s, n)
            IN  IF ~ValidDecimal(digits) \/ (rest # <<>> /\ IsIdStart(rest[1]))
                THEN <<Tok("bad", <<>>)>>
                ELSE <<Tok("num", digits)>> \o Tokenize(rest)
      [] IsIdStart(c) ->
            LET n == IdRun(s)
            IN  <<Tok("name", SubSeq(s, 1, n))>> \o Tokenize(Drop(s, n))
      [] c = QUOTE ->
            IF StartsWith(s, <<QUOTE, QUOTE, QUOTE>>)
            THEN LET body == Drop(s, 3)
                     i == IndexOf(<<QUOTE, QUOTE, QUOTE>>, body)
                 IN  IF i = 0 THEN <<Tok("bad", <<>>)>>
                     ELSE <<Tok("str", SubSeq(body, 1, i - 1))>>
                             \o Tokenize(Drop(body, i + 2))
            ELSE LET body == Tail(s)
                     i == IndexOf(<<QUOTE>>, body)
                 IN  IF i = 0 THEN <<Tok("bad", <<>>)>>
                     ELSE <<Tok("str", SubSeq(body, 1, i - 1))>>
                             \o Tokenize(Drop(body, i))
      [] c = STAR ->
            IF StartsWith(s, <<STAR, STAR>>)
            THEN <<Tok("**", <<>>)>> \o Tokenize(Drop(s, 2))
            ELSE <<Tok("*", <<>>)>> \o Tokenize(Tail(s))
      [] c = SLASH ->
            IF StartsWith(s, <<SLASH, SLASH>>)
            THEN <<Tok("//", <<>>)>> \o Tokenize(Drop(s, 2))
            ELSE <<Tok("/", <<>>)>> \o Tokenize(Tail(s))
      [] c = PLUS -> <<Tok("+", <<>>)>> \o Tokenize(Tail(s))
      [] c = MINUS -> <<Tok("-", <<>>)>> \o Tokenize(Tail(s))
      [] c = PERCENT -> <<Tok("%", <<>>)>> \o Tokenize(Tail(s))
      [] c = LPAREN -> <<Tok("(", <<>>)>> \o Tokenize(Tail(s))
      [] c = RPAREN -> <<Tok(")", <<>>)>> \o Tokenize(Tail(s))
      [] c = ESC -> <<Tok("bad", <<>>)>>
      [] OTHER -> Unmodelled

-----------------------------------------------------------------------------
\* ast.parse(expr, mode="eval"): the tree

Constant(v) == [node |-> "Constant", value |-> v]

BinOp(left, op, right) ==
    [node |-> "BinOp", left |-> left, op |-> op, right |-> right]

UnaryOp(op, operand) == [node |-> "UnaryOp", op |-> op, operand |-> operand]

\* Nodes that the walk rejects before looking at their children
Leaf(kind) == [node |-> kind]

NoParse == [ok |-> FALSE]

Parsed(tree, rest) == [ok |-> TRUE, tree |-> tree, rest |-> rest]

Kind(toks) == IF toks = <<>> THEN "end" ELSE toks[1].k

BinOpOf(k) ==
    CASE k = "+" -> "Add" [] k = "-" -> "Sub" [] k = "*" -> "Mult"
      [] k = "/" -> "Div" [] k = "//" -> "FloorDiv" [] k = "%" -> "Mod"
      [] k = "**" -> "Pow"

UnaryOpOf(k) == CASE k = "+" -> "UAdd" [] k = "-" -> "USub"

\* The binary operation of a left operand and the parse of its right operand
Combine(left, op, r) ==
    IF r.ok THEN Parsed(BinOp(left, op, r.tree), r.rest) ELSE NoParse

\* The unary operation on the parse of its operand
Unary(op, f) ==
    IF f.ok THEN Parsed(UnaryOp(op, f.tree), f.rest) ELSE NoParse

\* The closing parenthesis after the parse of a parenthesised expression or,
\* with `call`, of a call's argument
Closed(e, call) ==
    IF e.ok /\ Kind(e.rest) = ")"
    THEN Parsed(IF call THEN Leaf("Call") ELSE e.tree, Tail(e.rest))
    ELSE NoParse

RECURSIVE ParseSum(_), ParseSumRest(_), ParseTerm(_), ParseTermRest(_),
          ParseFactor(_), ParsePower(_), PowerRest(_), ParseTrailers(_),
          ParseAtom(_), ParseStrings(_, _)

\* sum: sum ('+' | '-') term | term
ParseSum(toks) == ParseSumRest(ParseTerm(toks))

ParseSumRest(l) ==
    IF l.ok /\ Kind(l.rest) \in {"+", "-"}
    THEN ParseSumRest(Combine(l.tree, BinOpOf(Kind(l.rest)),
                              ParseTerm(Tail(l.rest))))
    ELSE l

\* term: term ('*' | '/' | '//' | '%') factor | factor
ParseTerm(toks) == ParseTermRest(ParseFactor(toks))

ParseTermRest(l) ==
    IF l.ok /\ Kind(l.rest) \in {"*", "/", "//", "%"}
    THEN ParseTermRest(Combine(l.tree, BinOpOf(Kind(l.rest)),
                               ParseFactor(Tail(l.rest))))
    ELSE l

\* factor: ('+' | '-') factor | power
ParseFactor(toks) ==
    IF Kind(toks) \in {"+", "-"}
    THEN Unary(UnaryOpOf(Kind(toks)), ParseFactor(Tail(toks)))
    ELSE ParsePower(toks)

\* power: primary '**' factor | primary;  primary: atom trailer*
ParsePower(toks) == PowerRest(ParseTrailers(ParseAtom(toks)))

PowerRest(p) ==
    IF p.ok /\ Kind(p.rest) = "**"
    THEN Combine(p.tree, "Pow", ParseFactor(Tail(p.rest)))
    ELSE p

\* trailer: '(' [expression | '*' expression | '**' expression] ')', a call
ParseTrailers(p) ==
    IF p.ok /\ Kind(p.rest) = "("
    THEN LET t == Tail(p.rest)
         IN  IF Kind(t) = ")"
             THEN ParseTrailers(Parsed(Leaf("Call"), Tail(t)))
             ELSE ParseTrailers(Closed(ParseSum(IF Kind(t) \in {"*", "**"}
                                                THEN Tail(t) ELSE t), TRUE))
    ELSE p

\* atom: NUMBER | NAME | STRING+ | '(' expression ')' | '(' ')'
ParseAtom(toks) ==
    CASE Kind(toks) = "num" ->
            Parsed(Constant(LiteralValue(toks[1].v)), Tail(toks))
      [] Kind(toks) = "name" -> Parsed(Leaf("Name"), Tail(toks))
      [] Kind(toks) = "str" -> ParseStrings(<<>>, toks)
      [] Kind(toks) = "(" ->
            IF Kind(Tail(toks)) = ")"
            THEN Parsed(Leaf("Tuple"), Tail(Tail(toks)))
            ELSE Closed(ParseSum(Tail(toks)), FALSE)
      [] OTHER -> NoParse

\* Adjacent string literals are one constant
ParseStrings(acc, toks) ==
    IF Kind(toks) = "str" THEN ParseStrings(acc \o toks[1].v, Tail(toks))
    ELSE Parsed(Constant(StrVal(acc)), toks)

\* ast.parse: the tree, or a SyntaxError
Parse(expr) ==
    LET toks == Tokenize(expr)
        e == IF \E i \in 1..Len(toks) : toks[i].k = "bad"
             THEN NoParse ELSE ParseSum(toks)
    IN  IF e.ok /\ e.rest = <<>> THEN e ELSE NoParse

-----------------------------------------------------------------------------
\* The allow-list walk and the evaluation

AllowedNodes ==
    {"Expression", "BinOp", "UnaryOp", "Constant", "Add", "Sub", "Mult",
     "Div", "FloorDiv", "Mod", "Pow", "USub", "UAdd", "Load"}

Children(n) ==
    CASE n.node = "BinOp" -> <<n.left, n.right>>
      [] n.node = "UnaryOp" -> <<n.operand>>
      [] OTHER -> <<>>

\* The magnitude check of lines 88-92 (the fragment has no float literals)
literal_too_large(n) ==
    /\ n.node = "Constant"
    /\ n.value.type = "int"
    /\ NatLess(LiteralBound, n.value.mag)

\* for node in ast.walk(tree): the first complaint in breadth-first order
RECURSIVE Walk(_)
Walk(queue) ==
    IF queue = <<>> THEN "ok"
    ELSE LET n == queue[1] IN
         IF n.node \notin AllowedNodes
         THEN "disallowed node"
         ELSE IF literal_too_large(n) THEN "integer too large"
         ELSE Walk(Tail(queue) \o Children(n))

Value(v) == [ok |-> TRUE, value |-> v]

Raised(e) == [ok |-> FALSE, error |-> e]

IntNeg(x) == IntVal(~x.neg, x.mag)

IntAdd(x, y) ==
    IF x.neg = y.neg THEN IntVal(x.neg, NatAdd(x.mag, y.mag))
    ELSE IF NatLess(x.mag, y.mag) THEN IntVal(y.neg, NatSub(y.mag, x.mag))
    ELSE IntVal(x.neg, NatSub(x.mag, y.mag))

IntMul(x, y) == IntVal(x.neg # y.neg, NatMul(x.mag, y.mag))

\* Python's floor division and modulo: the remainder has the divisor's sign
IntFloorDiv(x, y) ==
    LET d == NatDivMod(x.mag, y.mag)
    IN  IF x.neg = y.neg \/ d.r = <<>> THEN IntVal(x.neg # y.neg, d.q)
        ELSE IntVal(TRUE, NatAdd(d.q, <<1>>))

IntMod(x, y) ==
    LET d == NatDivMod(x.mag, y.mag)
    IN  IF x.neg = y.neg \/ d.r = <<>> THEN IntVal(y.neg, d.r)
        ELSE IntVal(y.neg, NatSub(y.mag, d.r))

\* The exponents and repeat counts that the fragment computes with
SmallCount(x) == ~x.neg /\ Len(x.mag) <= 3

IsOdd(x) == x.mag # <<>> /\ x.mag[1] % 2 = 1

\* int ** int: an int for a non-negative exponent, a float otherwise
IntPow(x, y) ==
    IF ~y.neg
    THEN IF SmallCount(y)
         THEN Value(IntVal(x.neg /\ IsOdd(y), NatPow(x.mag, NatToInt(y.mag))))
         ELSE Unmodelled
    ELSE IF x.mag = <<>> THEN Raised("ZeroDivisionError")
    ELSE IF Len(y.mag) <= 1 /\ Len(x.mag) <= 1
         THEN Value(FloatVal(x.neg /\ IsOdd(y), <<1>>,
                             NatPow(x.mag, NatToInt(y.mag))))
         ELSE Unmodelled

\* int / int: a float, exact when both are below 10**15
IntDiv(x, y) ==
    IF y.mag = <<>> THEN Raised("ZeroDivisionError")
    ELSE IF Len(x.mag) <= 15 /\ Len(y.mag) <= 15
         THEN Value(FloatVal(x.neg # y.neg, x.mag, y.mag))
         ELSE Unmodelled

RECURSIVE Repeat(_, _)
Repeat(s, n) == IF n = 0 THEN <<>> ELSE s \o Repeat(s, n - 1)

StrMul(s, n) ==
    IF n.neg THEN Value(StrVal(<<>>))
    ELSE IF SmallCount(n) THEN Value(StrVal(Repeat(s.s, NatToInt(n.mag))))
    ELSE Unmodelled

\* str % value with a value that is no tuple or mapping: no conversion type
\* can be written without an ASCII letter, so the one argument is never
\* converted and the operation raises: a TypeError when the string holds no
\* '%', a TypeError or a ValueError (by the format specification) when it does.
StrFormat(s) ==
    IF \E i \in 1..Len(s.s) : s.s[i] = PERCENT
    THEN Raised("TypeError or ValueError")
    ELSE Raised("TypeError")

BinaryOp(op, l, r) ==
    CASE l.type = "int" /\ r.type = "int" ->
            (CASE op = "Add" -> Value(IntAdd(l, r))
               [] op = "Sub" -> Value(IntAdd(l, IntNeg(r)))
               [] op = "Mult" -> Value(IntMul(l, r))
               [] op = "Div" -> IntDiv(l, r)
               [] op = "FloorDiv" ->
                     IF r.mag = <<>> THEN Raised("ZeroDivisionError")
                     ELSE Value(IntFloorDiv(l, r))
               [] op = "Mod" ->
                     IF r.mag = <<>> THEN Raised("ZeroDivisionError")
                     ELSE Value(IntMod(l, r))
               [] op = "Pow" -> IntPow(l, r))
      [] l.type = "str" /\ r.type = "str" ->
            IF op = "Add" THEN Value(StrVal(l.s \o r.s))
            ELSE IF op = "Mod" THEN StrFormat(l) ELSE Raised("TypeError")
      [] l.type = "str" /\ r.type = "int" ->
            IF op = "Mult" THEN StrMul(l, r)
            ELSE IF op = "Mod" THEN StrFormat(l) ELSE Raised("TypeError")
      [] l.type = "int" /\ r.type = "str" ->
            IF op = "Mult" THEN StrMul(r, l) ELSE Raised("TypeError")
      [] OTHER -> Unmodelled

UnaryOperation(op, v) ==
    CASE v.type = "int" -> Value(IF op = "USub" THEN IntNeg(v) ELSE v)
      [] v.type = "str" -> Raised("TypeError")
      [] OTHER -> Unmodelled

\* eval(compile(tree)) with no builtins
RECURSIVE Eval(_)
Eval(n) ==
    CASE n.node = "Constant" -> Value(n.value)
      [] n.node = "UnaryOp" ->
            LET v == Eval(n.operand)
            IN  IF v.ok THEN UnaryOperation(n.op, v.value) ELSE v
      [] n.node = "BinOp" ->
            LET l == Eval(n.left)
                r == IF l.ok THEN Eval(n.right) ELSE l
            IN  IF l.ok /\ r.ok THEN BinaryOp(n.op, l.value, r.value) ELSE r

\* if isinstance(value, float) and value.is_integer(): value = int(value)
Coerce(v) ==
    IF v.type = "float"
    THEN LET d == NatDivMod(v.num, v.den)
         IN  IF d.r = <<>> THEN IntVal(v.neg, d.q) ELSE v
    ELSE v

EvalError(msg, parsed) == [ok |-> FALSE, error |-> msg, parsed |-> parsed]

EvalResult(v) == [ok |-> TRUE, value |-> v, parsed |-> TRUE]

_eval_mathops(text) ==
    LET expr == Strip(text) IN
    IF expr = <<>> THEN EvalError("empty expression", FALSE)
    ELSE IF \E i \in 1..Len(expr) : expr[i] \in DisallowedChars
    THEN EvalError("disallowed characters", FALSE)
    ELSE LET tree == Parse(expr) IN
    IF ~tree.ok THEN EvalError("syntax error", TRUE)
    ELSE LET complaint == Walk(<<tree.tree>>) IN
    IF complaint # "ok" THEN EvalError(complaint, TRUE)
    ELSE LET value == Eval(tree.tree) IN
    IF ~value.ok THEN EvalError(value.error, TRUE)
    ELSE EvalResult(Coerce(value.value))

\* str(value) for the values the fragment prints
Digits(mag) ==
    IF mag = <<>> THEN <<ZERO>>
    ELSE Reverse([i \in 1..Len(mag) |-> mag[i] + ZERO])

Str(v) ==
    CASE v.type = "int" -> (IF v.neg THEN <<MINUS>> ELSE <<>>) \o Digits(v.mag)
      [] v.type = "str" -> v.s
      [] OTHER -> Unmodelled

\* Expression texts
eSum == <<50, 43, 50>>   \* 2+2
eQuotient == <<49, 48, 47, 52>>   \* 10/4
eImport == <<105, 109, 112, 111, 114, 116, 32, 111, 115>>   \* import os
ePower == <<50, 42, 42, 53, 48>>   \* 2**50
eAtBound == <<49, 48, 48, 48, 48, 48, 48, 48, 48, 48, 48, 48, 48>>   \* 1000000000000
eOverBound == <<49, 48, 48, 48, 48, 48, 48, 48, 48, 48, 48, 48, 49>>   \* 1000000000001
eBoundPlusOne == <<49, 48, 42, 42, 49, 50, 43, 49>>   \* 10**12+1
eName == <<233>>   \* é
eDangling == <<50, 43>>   \* 2+
eModZero == <<50, 37, 48>>   \* 2%0
eCsiTwo == <<ESC, LBRACKET, 109, 50>>   \* ESC [m2
eEscTwo == <<ESC, 50>>   \* ESC 2

-----------------------------------------------------------------------------
\* The extra input of a dispatch (lines 291-307)

\* What Prompt.ask may return: nothing, or a stripped text
PromptTexts ==
    {<<>>, eSum, eImport, eName, eOverBound, eDangling, eModZero, eCsiTwo,
     eEscTwo}

\* str(evaluated): the value's text, or the text as typed when the mode does
\* not evaluate or the evaluation raised
evaluated_text(m, text) ==
    IF m.eval_mathops
    THEN LET r == _eval_mathops(text) IN IF r.ok THEN Str(r.value) ELSE text
    ELSE text

user_input_unsanitized(m, text) == evaluated_text(m, text)

\* payload["input"]
user_input(m, text) == sanitize_input(evaluated_text(m, text))

\* The payload after the prompt: a non-empty text adds the input key and
\* changes the action
WithInput(p, m, text) ==
    IF m.enable_input /\ text # <<>>
    THEN [p EXCEPT !.input = <<user_input(m, text)>>, !.action = "scan+input"]
    ELSE p

\* The values Prompt.ask can leave in `extra` for a dispatch in mode m; the
\* prompt is skipped when the mode has no enable_input
Prompted(m) == IF m.enable_input THEN PromptTexts ELSE {extra}

-----------------------------------------------------------------------------
\* Accesses to the session fields shared with the timer thread

Access(field, op, locked) == [field |-> field, op |-> op, locked |-> locked]

\* cancel_timer(): `if idle_timer is not None: idle_timer.cancel();
\* idle_timer = None`, called by the loop without mode_lock
cancel_timer_accesses ==
    {Access("idle_timer", "read", FALSE)} \cup
    (IF idle_timer # NoTimer THEN {Access("idle_timer", "write", FALSE)} ELSE {})

\* The prompt `[<current_mode.name>] ` printed before each readline()
prompt_accesses == {Access("current_mode", "read", FALSE)}

-----------------------------------------------------------------------------
\* The idle timer (threading.Timer objects)
\*
\*   "unused"    no such object (never created, or finished and unreferenced)
\*   "pending"   started, waiting for its interval; cancel() still stops it
\*   "firing"    the interval has elapsed and the thread has passed its
\*               finished-check: the callback runs as soon as it is scheduled
\*               and gets mode_lock, whatever cancel() does from now on
\*   "stale"     as "firing", after cancel() has been called on it (the handle
\*               no longer refers to it)
\*   "finished"  the callback has returned; the handle still refers to it

Started(t) == timers[t] \in {"firing", "stale"}

\* cancel_timer(): the timer table after it (the handle becomes None)
cancel_timer ==
    IF idle_timer = NoTimer THEN timers
    ELSE [timers EXCEPT ![idle_timer] =
            IF @ = "firing" THEN "stale" ELSE "unused"]

\* The id of the Timer object that schedule_timeout creates: a new object,
\* distinct from the one the handle referred to.
NewTimer ==
    CHOOSE t \in TimerIds :
        /\ t # idle_timer
        /\ cancel_timer[t] = "unused"
        /\ \A u \in TimerIds :
              (u # idle_timer /\ cancel_timer[u] = "unused") => t <= u

\* _do_timeout(reason): the new current_mode and the events emitted
do_timeout_unchecked(reason) ==
    [mode |-> default_mode,
     events |-> <<Event("mode_auto_revert", default_mode, reason, <<>>)>>]

do_timeout(reason) ==
    IF current_mode # default_mode
    THEN [mode |-> default_mode,
          events |-> <<Event("mode_auto_revert", default_mode, reason, <<>>)>>]
    ELSE [mode |-> current_mode, events |-> <<>>]

\* The interval of timer t elapses before cancel() was called on it.
Expire(t) ==
    /\ timers[t] = "pending"
    /\ Cardinality({u \in TimerIds : Started(u)}) < MaxFiring
    /\ timers' = [timers EXCEPT ![t] = "firing"]
    /\ events' = <<>>
    /\ sent' = <<>>
    /\ resolved' = <<>>
    /\ accesses' = {}
    /\ UNCHANGED <<config_vars, current_mode, idle_timer, pc, local_vars, harness_vars>>

\* The thread of timer t runs its callback, lambda: _do_timeout("inactivity"),
\* under mode_lock, and ends.
Callback(t) ==
    /\ Started(t)
    /\ current_mode' = do_timeout("inactivity").mode
    /\ events' = do_timeout("inactivity").events
    /\ timers' = [timers EXCEPT ![t] = IF t = idle_timer THEN "finished" ELSE "unused"]
    /\ sent' = <<>>
    /\ resolved' = <<>>
    /\ accesses' = {Access("current_mode", "read", TRUE)} \cup
                    (IF current_mode # default_mode
                     THEN {Access("current_mode", "write", TRUE)} ELSE {})
    /\ UNCHANGED <<config_vars, idle_timer, pc, local_vars, harness_vars>>

-----------------------------------------------------------------------------
\* The foreground loop of main()

\* Where the loop goes after the api.send of a scan: `if ephemeral: pass
\* else: schedule_timeout()`
after_send_always_schedule == "sched_check"

after_send == IF ephemeral THEN "read" ELSE "sched_check"

after_trigger_always_send == "trig_send"

\* Where the loop goes after the schedule_timeout() of a trigger match:
\* `if not triggered_mode.enable_trigger_req: continue`
after_trigger_schedule ==
    IF ModeNamed(modes, triggered_mode).enable_trigger_req THEN "trig_send" ELSE "read"

\* What the loop does with a non-empty token b: the branch taken and the
\* locals it sets.
Dispatch(b) ==
    LET tm == find_mode(modes, b)
    IN  IF tm # NoMode /\ TriggerHit(ModeNamed(modes, tm), b)
        THEN [kind |-> "trigger", triggered_mode |-> tm, effective_mode |-> tm,
              ephemeral |-> FALSE, barcode |-> b]
        ELSE IF tm # NoMode /\ FirstPrefix(ModeNamed(modes, tm), b) # 0
        THEN LET m == ModeNamed(modes, tm)
                 pref == m.prefix_trigger[FirstPrefix(m, b)]
             IN [kind |-> "prefix", triggered_mode |-> tm, effective_mode |-> tm,
                 ephemeral |-> TRUE,
                 barcode |-> IF m.strip_prefix THEN Drop(b, Len(pref)) ELSE b]
        ELSE [kind |-> "plain", triggered_mode |-> tm,
              effective_mode |-> current_mode, ephemeral |-> FALSE, barcode |-> b]

not_barcode_never(b) == FALSE

\* `if not barcode: continue`
not_barcode(b) == b = <<>>

\* One line is read, stripped and sanitized; an empty token ends the
\* iteration, any other is resolved, and a trigger match switches the mode.
ReadLine(text) ==
    /\ pc = "read"
    /\ line' = text
    /\ LET b == sanitize_input(Strip(text))
           d == Dispatch(b)
       IN IF not_barcode(b)
          THEN /\ barcode' = b
               /\ events' = <<>>
               /\ resolved' = <<>>
               /\ accesses' = prompt_accesses
               /\ UNCHANGED <<current_mode, pc, raw_barcode, triggered_mode,
                              effective_mode, ephemeral, extra>>
          ELSE /\ raw_barcode' = b
               /\ resolved' = <<b>>
               /\ barcode' = d.barcode
               /\ triggered_mode' = d.triggered_mode
               /\ effective_mode' = d.effective_mode
               /\ ephemeral' = d.ephemeral
               /\ UNCHANGED extra
               /\ IF d.kind = "trigger"
                  THEN /\ current_mode' = d.triggered_mode
                       /\ events' = <<Event("mode_switch", d.triggered_mode, "", b)>>
                       /\ pc' = "trig_sched_check"
                       /\ accesses' = prompt_accesses \cup
                             {Access("current_mode", "read", FALSE),
                              Access("current_mode", "write", TRUE),
                              Access("current_mode", "read", TRUE)}
                  ELSE /\ events' = <<>>
                       /\ pc' = "send"
                       /\ accesses' = prompt_accesses
                       /\ UNCHANGED current_mode
    /\ sent' = <<>>
    /\ UNCHANGED <<config_vars, idle_timer, timers, harness_vars>>

\* As SchedCheck, without the `if not args.idle_timeout: return` guard.
SchedCheck_unguarded(at, start, ret) ==
    /\ pc = at
    /\ IF current_mode = default_mode
       THEN /\ timers' = cancel_timer
            /\ idle_timer' = NoTimer
            /\ pc' = ret
            /\ accesses' = {Access("current_mode", "read", FALSE)}
                               \cup cancel_timer_accesses
       ELSE /\ pc' = start
            /\ accesses' = {Access("current_mode", "read", FALSE)}
            /\ UNCHANGED <<idle_timer, timers>>
    /\ events' = <<>>
    /\ sent' = <<>>
    /\ resolved' = <<>>
    /\ UNCHANGED <<config_vars, current_mode, local_vars, harness_vars>>

\* schedule_timeout() up to its decision (lines 206-210)
SchedCheck(at, start, ret) ==
    /\ pc = at
    /\ IF idle_timeout = 0
       THEN /\ pc' = ret
            /\ accesses' = {}
            /\ UNCHANGED <<idle_timer, timers>>
       ELSE IF current_mode = default_mode
       THEN /\ timers' = cancel_timer
            /\ idle_timer' = NoTimer
            /\ pc' = ret
            /\ accesses' = {Access("current_mode", "read", FALSE)}
                               \cup cancel_timer_accesses
       ELSE /\ pc' = start
            /\ accesses' = {Access("current_mode", "read", FALSE)}
            /\ UNCHANGED <<idle_timer, timers>>
    /\ events' = <<>>
    /\ sent' = <<>>
    /\ resolved' = <<>>
    /\ UNCHANGED <<config_vars, current_mode, local_vars, harness_vars>>

\* schedule_timeout(), cancel-then-start (lines 211-215)
SchedStart(at, ret) ==
    /\ pc = at
    /\ timers' = [cancel_timer EXCEPT ![NewTimer] = "pending"]
    /\ idle_timer' = NewTimer
    /\ pc' = ret
    /\ accesses' = cancel_timer_accesses \cup
                    {Access("idle_timer", "write", FALSE),
                     Access("idle_timer", "read", FALSE)}
    /\ events' = <<>>
    /\ sent' = <<>>
    /\ resolved' = <<>>
    /\ UNCHANGED <<config_vars, current_mode, local_vars, harness_vars>>

\* As Send, with an exception of api.send escaping to the loop's outer
\* handler, which skips schedule_timeout().
Send_unhandled(outcome) ==
    /\ pc = "send"
    /\ \E text \in Prompted(ModeNamed(modes, effective_mode)) :
          /\ extra' = text
          /\ sent' = <<WithInput(Payload(barcode, effective_mode, "scan", raw_barcode),
                                ModeNamed(modes, effective_mode), text)>>
    /\ events' = <<Event(outcome, effective_mode, "", <<>>)>>
    /\ pc' = IF outcome = "exception" THEN "read" ELSE after_send
    /\ resolved' = <<>>
    /\ accesses' = {}
    /\ UNCHANGED <<config_vars, session_vars, line, barcode, raw_barcode,
                   triggered_mode, effective_mode, ephemeral, harness_vars>>

\* The payload, the prompt for extra input when the mode asks for it,
\* api.send and the logging of its outcome (lines 287-335)
Send(outcome) ==
    /\ pc = "send"
    /\ \E text \in Prompted(ModeNamed(modes, effective_mode)) :
          /\ extra' = text
          /\ sent' = <<WithInput(Payload(barcode, effective_mode, "scan", raw_barcode),
                                ModeNamed(modes, effective_mode), text)>>
    /\ events' = <<Event(outcome, effective_mode, "", <<>>)>>
    /\ pc' = after_send
    /\ resolved' = <<>>
    /\ accesses' = {}
    /\ UNCHANGED <<config_vars, session_vars, line, barcode, raw_barcode,
                   triggered_mode, effective_mode, ephemeral, harness_vars>>

\* api.send of a mode switch (lines 253-277)
TriggerSend(outcome) ==
    /\ pc = "trig_send"
    /\ sent' = <<Payload(raw_barcode, effective_mode, "mode", raw_barcode)>>
    /\ resolved' = <<>>
    /\ events' = <<Event(outcome, effective_mode, "", <<>>)>>
    /\ pc' = "read"
    /\ accesses' = {}
    /\ UNCHANGED <<config_vars, session_vars, local_vars, harness_vars>>

\* End of input (readline() returns the empty string) or KeyboardInterrupt
\* while waiting for a line: leave the loop, cancel_timer(), return.
Shutdown(cause) ==
    /\ pc = "read"
    /\ line' = IF cause = "stdin_eof" THEN <<>> ELSE line
    /\ events' = <<Event(cause, current_mode, "", <<>>)>>
    /\ timers' = cancel_timer
    /\ idle_timer' = NoTimer
    /\ pc' = "done"
    /\ sent' = <<>>
    /\ resolved' = <<>>
    /\ accesses' = prompt_accesses \cup cancel_timer_accesses
    /\ UNCHANGED <<config_vars, current_mode, barcode, raw_barcode,
                   triggered_mode, effective_mode, ephemeral, extra,
                   harness_vars>>

MainStep ==
    \/ \E text \in Lines : ReadLine(text)
    \/ SchedCheck("trig_sched_check", "trig_sched_start", after_trigger_schedule)
    \/ SchedStart("trig_sched_start", after_trigger_schedule)
    \/ \E o \in SendOutcomes : TriggerSend(o)
    \/ \E o \in SendOutcomes : Send(o)
    \/ SchedCheck("sched_check", "sched_start", "read")
    \/ SchedStart("sched_start", "read")
    \/ \E c \in {"stdin_eof", "shutdown"} : Shutdown(c)

TimerStep ==
    \/ \E t \in TimerIds : Expire(t)
    \/ \E t \in TimerIds : Callback(t)

Next == MainStep \/ TimerStep

Spec == Init /\ [][Next]_vars

-----------------------------------------------------------------------------
\* The session with modes that prompt for extra input

InputModes ==
    { << Mode("DEFAULT", {tD}, <<>>, FALSE, FALSE),
         InputMode(Mode("A", {tS}, <<tX>>, FALSE, FALSE), TRUE),
         InputMode(Mode("B", {tT}, <<>>, FALSE, TRUE), FALSE) >> }

InputInit ==
    /\ modes \in InputModes
    /\ idle_timeout = IdleSeconds
    /\ SessionInit
    /\ san_in = <<>>
    /\ san_out = <<>>
    /\ eval_in = <<>>
    /\ eval_out = <<>>

SpecInput == InputInit /\ [][Next]_vars

-----------------------------------------------------------------------------
\* The main loop alone, with no idle timeout configured, over every mode
\* collection of ResolveModes

ResolveInit ==
    /\ modes \in ResolveModes
    /\ idle_timeout = 0
    /\ SessionInit
    /\ san_in = <<>>
    /\ san_out = <<>>
    /\ eval_in = <<>>
    /\ eval_out = <<>>

ResolveNext ==
    \/ \E text \in Lines : ReadLine(text)
    \/ SchedCheck("trig_sched_check", "trig_sched_start", after_trigger_schedule)
    \/ \E o \in SendOutcomes : TriggerSend(o)
    \/ \E o \in SendOutcomes : Send(o)
    \/ SchedCheck("sched_check", "sched_start", "read")
    \/ \E c \in {"stdin_eof", "shutdown"} : Shutdown(c)

SpecResolve == ResolveInit /\ [][ResolveNext]_vars

-----------------------------------------------------------------------------
\* sanitize_input applied to every string over SanAlphabet of length at most
\* MaxSanLen, and once more to its own result

\* ESC, "[", "0" (parameter byte), " " (intermediate byte), "m" (final byte)
SanAlphabet == {ESC, LBRACKET, 48, 32, 109}

MaxSanLen == 4

SanStrings == UNION {[1..k -> SanAlphabet] : k \in 0..MaxSanLen}

SanInit ==
    /\ modes \in {ms \in SessionModes : ms[2].strip_prefix /\ ms[3].trigger = {tT}}
    /\ idle_timeout = 0
    /\ SessionInit
    /\ san_in \in SanStrings
    /\ san_out = <<>>
    /\ eval_in = <<>>
    /\ eval_out = <<>>

SanApply ==
    /\ Len(san_out) < 2
    /\ san_out' = Append(san_out,
                         sanitize_input(IF san_out = <<>> THEN san_in
                                        ELSE san_out[Len(san_out)]))
    /\ UNCHANGED <<config_vars, session_vars, pc, local_vars, events, sent,
                   resolved, accesses, san_in, eval_in, eval_out>>

SpecSanitize == SanInit /\ [][SanApply]_vars

-----------------------------------------------------------------------------
\* Specification of the evaluator: _eval_mathops applied to one text

\* "2", "0", "*", "%", "+", "-", "/", "(", ")", a double quote, "e" with an
\* acute accent, "a" and a space
EvalAlphabet ==
    {50, ZERO, STAR, PERCENT, PLUS, MINUS, SLASH, LPAREN, RPAREN, QUOTE,
     E_ACUTE, 97, 32}

MaxExprLen == 3

ShortTexts == UNION {[1..k -> EvalAlphabet] : k \in 0..MaxExprLen}

LongTexts ==
    {eSum, eQuotient, eImport, ePower, eAtBound, eOverBound, eBoundPlusOne}

EvalTexts == ShortTexts \cup LongTexts

EvalInit ==
    /\ modes \in {ms \in SessionModes : ms[2].strip_prefix /\ ms[3].trigger = {tT}}
    /\ idle_timeout = 0
    /\ SessionInit
    /\ san_in = <<>>
    /\ san_out = <<>>
    /\ eval_in \in EvalTexts
    /\ eval_out = <<>>

EvalApply ==
    /\ eval_out = <<>>
    /\ eval_out' = <<_eval_mathops(eval_in)>>
    /\ UNCHANGED <<config_vars, session_vars, pc, local_vars, events, sent,
                   resolved, accesses, san_in, san_out, eval_in>>

SpecEval == EvalInit /\ [][EvalApply]_vars

-----------------------------------------------------------------------------
\* Claims

HasChar(s, c) == \E i \in 1..Len(s) : s[i] = c

\* C10: sanitize_input is idempotent, sanitize_input(sanitize_input(x)) =
\* sanitize_input(x) for every input x, and no result contains the escape
\* character.
C10_SanitizeIdempotent ==
    /\ \A i \in 1..Len(san_out) : ~HasChar(san_out[i], ESC)
    /\ Len(san_out) = 2 => san_out[2] = san_out[1]

\* A lone escape character survived the CSI pass and text remains after both
\* passes.
C10_Witness ==
    /\ Len(san_out) = 2
    /\ HasChar(sanitize_input_noreplace(san_in), ESC)
    /\ san_out[1] # <<>>
    /\ san_out[1] # san_in

\* Indices of the modes whose trigger set contains token b
TriggerModes(b) == {i \in 1..Len(modes) : b \in modes[i].trigger}

\* Indices of the modes with a prefix that token b starts with
PrefixModes(b) ==
    {i \in 1..Len(modes) :
        \E j \in 1..Len(modes[i].prefix_trigger) :
            StartsWith(b, modes[i].prefix_trigger[j])}

Least(S) == CHOOSE i \in S : \A k \in S : i <= k

\* C5: a token contained in some mode's trigger set resolves to the first
\* mode, in iteration order, whose trigger set contains it, and the loop
\* handles it as a persistent switch, never as a prefix match, whatever
\* prefixes it starts with.
C5_TriggerWins ==
    (raw_barcode # <<>> /\ TriggerModes(raw_barcode) # {}) =>
        /\ find_mode(modes, raw_barcode) = modes[Least(TriggerModes(raw_barcode))].name
        /\ triggered_mode = modes[Least(TriggerModes(raw_barcode))].name
        /\ ~ephemeral
        /\ effective_mode = triggered_mode
        /\ current_mode = triggered_mode
        /\ barcode = raw_barcode \/ (barcode = <<>> /\ pc \in {"read", "done"})
        /\ pc \in {"trig_sched_check", "trig_send", "read", "done"}
        /\ \A i \in 1..Len(sent) : sent[i].action = "mode"

\* The token "XT" is a trigger of B and starts with a prefix of the earlier
\* mode A; its switch request has been dispatched.
C5_Witness ==
    /\ raw_barcode = tXT
    /\ triggered_mode = "B"
    /\ 2 \in PrefixModes(raw_barcode)
    /\ sent # <<>>

\* The first prefix, in configured order, of mode m that token b starts with
FirstMatchingPrefix(m, b) ==
    m.prefix_trigger[Least({j \in 1..Len(m.prefix_trigger) :
                               StartsWith(b, m.prefix_trigger[j])})]

\* C6: a token in no trigger set that starts with a configured prefix is an
\* ephemeral match on the first mode, in iteration order, with a matching
\* prefix, and the payload's barcode is the token without that mode's first
\* matching prefix when strip_prefix is set, the token itself otherwise.
C6_PrefixResidual ==
    (raw_barcode # <<>> /\ TriggerModes(raw_barcode) = {}
                        /\ PrefixModes(raw_barcode) # {}) =>
        LET m == modes[Least(PrefixModes(raw_barcode))]
            p == FirstMatchingPrefix(m, raw_barcode)
            residual == IF m.strip_prefix
                        THEN SubSeq(raw_barcode, Len(p) + 1, Len(raw_barcode))
                        ELSE raw_barcode
        IN  /\ triggered_mode = m.name
            /\ ephemeral
            /\ effective_mode = m.name
            /\ barcode = residual \/ (barcode = <<>> /\ pc \in {"read", "done"})
            /\ pc \in {"send", "read", "done"}
            /\ \A i \in 1..Len(sent) :
                  /\ sent[i].barcode = residual
                  /\ sent[i].mode = m.name
                  /\ sent[i].action = "scan"

\* "XT" was dispatched for mode A, whose prefixes "X" and "XT" both match,
\* with the first of them stripped.
C6_Witness ==
    /\ raw_barcode = tXT
    /\ TriggerModes(raw_barcode) = {}
    /\ modes[2].prefix_trigger = <<tX, tXT>>
    /\ modes[2].strip_prefix
    /\ Len(sent) = 1
    /\ sent[1].barcode = tT
    /\ sent[1].raw_barcode = <<tXT>>

-----------------------------------------------------------------------------
\* Session claims

\* Timers that can still revert the session as far as the loop knows: started,
\* not cancelled, callback not yet returned.
LiveTimers == {t \in TimerIds : timers[t] \in {"pending", "firing"}}
LiveTimersAfter == {t \in TimerIds : timers'[t] \in {"pending", "firing"}}

\* The loop's schedule_timeout() call of a trigger match returns.
TriggerHandled ==
    /\ pc \in {"trig_sched_check", "trig_sched_start"}
    /\ pc' \notin {"trig_sched_check", "trig_sched_start"}

\* The loop's schedule_timeout() call after a plain dispatch returns.
PlainHandled ==
    /\ pc \in {"sched_check", "sched_start"}
    /\ pc' \notin {"sched_check", "sched_start"}

\* C1: when the handling of a trigger match of mode m (set current_mode,
\* schedule_timeout) has completed, current_mode is m; no idle timer is live
\* if m is the default mode; exactly one is live if m is not the default mode
\* and an idle timeout is configured.
C1_TriggerHandled ==
    [][TriggerHandled =>
          /\ current_mode' = triggered_mode
          /\ triggered_mode = default_mode => LiveTimersAfter = {}
          /\ (triggered_mode # default_mode /\ idle_timeout # 0) =>
                Cardinality(LiveTimersAfter) = 1]_vars

\* C7: when the schedule_timeout() after a plain dispatch has completed, with
\* an idle timeout configured: if current_mode is not the default mode the
\* previous timer is no longer live and exactly one timer, a new one, is live;
\* if current_mode is the default mode no timer is live.
C7_PlainDispatchReschedules ==
    [][(PlainHandled /\ idle_timeout # 0) =>
          /\ current_mode' # default_mode =>
                /\ LiveTimersAfter = {idle_timer'}
                /\ idle_timer' # idle_timer
                /\ timers'[idle_timer'] = "pending"
          /\ current_mode' = default_mode => LiveTimersAfter = {}]_vars

\* The loop takes a step of the handling of an ephemeral (prefix) match.
EphemeralStep ==
    \/ pc = "read" /\ pc' = "send" /\ ephemeral'
    \/ pc \notin {"read", "done"} /\ pc' # pc /\ ephemeral

\* C2: handling a prefix match leaves current_mode and the idle timer as they
\* are; the matched mode is the effective mode of that one dispatch, and the
\* next plain token is dispatched under current_mode again.
C2_EphemeralFrame ==
    [][/\ EphemeralStep =>
            /\ UNCHANGED <<current_mode, idle_timer, timers>>
            /\ pc = "read" => effective_mode' = triggered_mode'
            /\ pc # "read" =>
                  /\ pc' = "read"
                  /\ Len(sent') = 1
                  /\ sent'[1].mode = triggered_mode
       /\ (pc = "read" /\ pc' = "send" /\ ~ephemeral') =>
            effective_mode' = current_mode]_vars

\* An ephemeral dispatch for mode A was made while mode B is current and its
\* timer is pending.
C2_Witness ==
    /\ pc = "read"
    /\ ephemeral
    /\ Len(sent) = 1
    /\ sent[1].mode = "A"
    /\ current_mode = "B"
    /\ idle_timer # NoTimer
    /\ timers[idle_timer] = "pending"

\* The callback of timer t runs in this step.
CallbackRan(t) == Started(t) /\ timers'[t] \notin {"firing", "stale"}

HasRevert(es) == \E i \in 1..Len(es) : es[i].event = "mode_auto_revert"

\* C3: a timer callback that runs while current_mode is the default mode
\* changes nothing and emits no mode_auto_revert; a mode_auto_revert is
\* emitted only by a step that takes current_mode from a non-default mode to
\* the default mode.
C3_StaleFireIsNoOp ==
    [][/\ \A t \in TimerIds :
            (CallbackRan(t) /\ current_mode = default_mode) =>
                (current_mode' = default_mode /\ ~HasRevert(events'))
       /\ HasRevert(events') =>
            (current_mode # default_mode /\ current_mode' = default_mode)]_vars

\* A trigger match has set current_mode back to the default mode, and the
\* timer of the previous mode has since run its callback without emitting
\* anything.
C3_Witness ==
    /\ pc = "trig_sched_check"
    /\ triggered_mode = default_mode
    /\ current_mode = default_mode
    /\ idle_timer # NoTimer
    /\ timers[idle_timer] = "finished"
    /\ events = <<>>

\* C8: a dispatch leaves current_mode and the idle timer untouched and hands
\* control to the same next position whether api.send succeeded, returned a
\* non-success response or raised: the rescheduling of a plain dispatch, the
\* next read otherwise.
C8_OutcomeIndependent ==
    [][(pc \in {"send", "trig_send"} /\ pc' # pc) =>
          /\ UNCHANGED <<current_mode, idle_timer, timers>>
          /\ Len(sent') = 1
          /\ pc' = IF pc = "send" /\ ~ephemeral THEN "sched_check" ELSE "read"]_vars

\* A plain dispatch in a non-default mode raised, and the loop is about to
\* reschedule the idle timer.
C8_Witness ==
    /\ pc = "sched_check"
    /\ Len(events) = 1
    /\ events[1].event = "exception"
    /\ current_mode # default_mode
    /\ idle_timer # NoTimer
    /\ idle_timeout # 0

\* C9: with no idle timeout configured no timer exists in any state, and
\* current_mode changes only in the step that handles a trigger match, to the
\* matched mode.
C9_NoTimeoutNoTimer ==
    [][idle_timeout = 0 =>
          /\ idle_timer = NoTimer /\ idle_timer' = NoTimer
          /\ \A t \in TimerIds : timers[t] = "unused" /\ timers'[t] = "unused"
          /\ current_mode' # current_mode =>
                /\ pc = "read"
                /\ pc' = "trig_sched_check"
                /\ current_mode' = triggered_mode'
                /\ raw_barcode' \in ModeNamed(modes, current_mode').trigger]_vars

\* Without an idle timeout, a plain token has been dispatched and handled in
\* a non-default mode.
C9_Witness ==
    /\ idle_timeout = 0
    /\ current_mode # default_mode
    /\ pc = "read"
    /\ triggered_mode = NoMode
    /\ raw_barcode # <<>>

-----------------------------------------------------------------------------
\* The session with the timer threads scheduled fairly: a started Timer whose
\* interval elapses uncancelled does run, and its callback does get mode_lock.

LiveSpec ==
    /\ Init
    /\ [][Next]_vars
    /\ \A t \in TimerIds : WF_vars(Expire(t)) /\ WF_vars(Callback(t))

\* The loop is waiting for a line, or handling an ephemeral (prefix) match.
Quiet == pc = "read" \/ (pc # "done" /\ ephemeral)

RevertedByInactivity ==
    /\ current_mode = default_mode
    /\ events = <<Event("mode_auto_revert", default_mode, "inactivity", <<>>)>>

\* C4: with an idle timeout configured, once the session is in a non-default
\* mode and from then on the loop only waits or handles ephemeral matches, a
\* timer fire with reason "inactivity" eventually sets current_mode back to
\* the default mode.
C4_EphemeralDoesNotPostpone ==
    []((idle_timeout # 0 /\ current_mode # default_mode /\ []Quiet)
          => <>RevertedByInactivity)

\* An ephemeral dispatch was made in a non-default mode and the timer has
\* since reverted the session.
C4_Witness ==
    /\ RevertedByInactivity
    /\ pc = "read"
    /\ ephemeral
    /\ idle_timer # NoTimer
    /\ timers[idle_timer] = "finished"

-----------------------------------------------------------------------------
\* Shutdown, timer ownership and lock discipline

\* Timers whose callback can still run: not yet expired, or expired and past
\* the point where cancel() is honoured.
CanStillRun == {t \in TimerIds : timers[t] \in {"pending", "firing", "stale"}}

\* C14: once the input loop has been left (end of input or keyboard
\* interrupt) and main has cancelled the timer, no idle timer is pending, and
\* no later step changes current_mode or emits a mode_auto_revert.
C14_QuietAfterShutdown ==
    [][pc = "done" =>
          /\ \A t \in TimerIds : timers[t] # "pending"
          /\ current_mode' = current_mode
          /\ ~HasRevert(events')]_vars

\* C15: after a trigger match has set current_mode to a non-default mode,
\* the only callback that takes current_mode back to the default mode is that
\* of the timer the session's handle refers to, on which no cancel has been
\* requested, and not while the schedule_timeout() of the switch is still to
\* come (the handle then still refers to the timer of the previous mode).
C15_OnlyOwnTimerReverts ==
    [][\A t \in TimerIds :
          (CallbackRan(t) /\ current_mode # default_mode
                          /\ current_mode' = default_mode) =>
              /\ timers[t] = "firing"
              /\ t = idle_timer
              /\ pc \notin {"trig_sched_check", "trig_sched_start"}]_vars

\* C16: at most one idle timer is pending, and at most one timer can still
\* run its callback.
C16_AtMostOneTimer ==
    /\ Cardinality({t \in TimerIds : timers[t] = "pending"}) <= 1
    /\ Cardinality(CanStillRun) <= 1

\* C17: every read and write of current_mode and idle_timer is made while
\* holding mode_lock.
C17_AccessesUnderLock == \A a \in accesses : a.locked

\* C18: whenever the loop waits for the next line and current_mode is the
\* default mode, no idle timer is live.
C18_DefaultHasNoTimer ==
    (pc = "read" /\ current_mode = default_mode) => LiveTimers = {}

\* C19: a timer callback that runs while current_mode is not the default mode
\* sets current_mode to the default mode, clears the timer handle and emits
\* exactly one mode_auto_revert with the default mode's name and the reason.
C19_RevertClearsHandle ==
    [][\A t \in TimerIds :
          (CallbackRan(t) /\ current_mode # default_mode) =>
              /\ current_mode' = default_mode
              /\ idle_timer' = NoTimer
              /\ events' = <<Event("mode_auto_revert", default_mode,
                                   "inactivity", <<>>)>>]_vars

-----------------------------------------------------------------------------
\* The evaluator's bounds and lexical guard

\* The integer literals of a text exceed 10**12 in magnitude
HasLargeLiteral(text) ==
    LET toks == Tokenize(Strip(text))
    IN  \E i \in 1..Len(toks) :
            /\ toks[i].k = "num"
            /\ NatLess(LiteralBound, LiteralValue(toks[i].v).mag)

\* C11: _eval_mathops("2**50") yields an error; no call yields a number of
\* magnitude above 10**12, whether the bound is exceeded by a literal or
\* only by the value of the expression.
C11_MagnitudeBound ==
    \A i \in 1..Len(eval_out) :
        /\ eval_in = ePower => ~eval_out[i].ok
        /\ (eval_out[i].parsed /\ HasLargeLiteral(eval_in)) => ~eval_out[i].ok
        /\ (eval_out[i].ok /\ eval_out[i].value.type = "int") =>
                ~NatLess(LiteralBound, eval_out[i].value.mag)

\* C13: for a text with at least one alphabetic character _eval_mathops
\* fails, and it fails before ast.parse is called.
C13_LettersStopAtGuard ==
    \A i \in 1..Len(eval_out) :
        (\E k \in 1..Len(eval_in) : IsAlpha(eval_in[k])) =>
            (~eval_out[i].ok /\ ~eval_out[i].parsed)

-----------------------------------------------------------------------------
\* Extra input and trigger dispatches

\* The loop dispatches a token in a mode that prompts for extra input.
PromptedDispatch ==
    /\ pc = "send"
    /\ pc' # "send"
    /\ ModeNamed(modes, effective_mode).enable_input

\* The text typed at the prompt is not empty, the mode evaluates it and
\* _eval_mathops raises.
EvalFailed ==
    /\ ModeNamed(modes, effective_mode).eval_mathops
    /\ extra' # <<>>
    /\ ~_eval_mathops(extra').ok

\* C12: when the mode has enable_input and eval_mathops and the evaluation
\* of a non-empty extra text raises, the token is still dispatched, with the
\* sanitized text as typed as input and the action "scan+input"; the session
\* fields are left alone and the loop goes on to the same position as after
\* any other dispatch.
C12_EvalFailureFallsBack ==
    [][PromptedDispatch =>
          /\ Len(sent') = 1
          /\ pc' = after_send
          /\ UNCHANGED session_vars
          /\ EvalFailed =>
                sent' = <<[Payload(barcode, effective_mode, "scan+input",
                                   raw_barcode)
                             EXCEPT !.input = <<sanitize_input(extra')>>]>>]_vars

\* A text with an escape character failed to parse and was dispatched
\* without the escape character.
C12_Witness ==
    /\ pc = "sched_check"
    /\ ModeNamed(modes, effective_mode).enable_input
    /\ ModeNamed(modes, effective_mode).eval_mathops
    /\ extra = eEscTwo
    /\ _eval_mathops(extra).error = "syntax error"
    /\ Len(sent) = 1
    /\ sent[1].action = "scan+input"
    /\ sent[1].input = <<<<50>>>>

TriggerPositions == {"trig_sched_check", "trig_sched_start"}

SendPositions == {"send", "trig_send"}

\* C20: a token causes at most one api.send call. A trigger match sets
\* current_mode and calls schedule_timeout() first; it is then dispatched if
\* and only if the triggered mode has enable_trigger_req, with the action
\* "mode", the token as read as barcode, no prompt and no input.
C20_TriggerDispatch ==
    [][/\ Len(sent') <= 1
       /\ Len(sent') = 1 =>
            (pc \in SendPositions /\ pc' \notin SendPositions \cup TriggerPositions)
       /\ (pc' = "send" /\ pc # "send") => pc = "read"
       /\ (pc' \in TriggerPositions /\ pc \notin TriggerPositions) =>
            /\ pc = "read"
            /\ current_mode' = triggered_mode'
            /\ sent' = <<>>
       /\ (pc' = "trig_send" /\ pc # "trig_send") => pc \in TriggerPositions
       /\ TriggerHandled =>
            /\ pc' \in {"trig_send", "read"}
            /\ pc' = "trig_send" <=>
                  ModeNamed(modes, triggered_mode).enable_trigger_req
       /\ (pc = "trig_send" /\ pc' # "trig_send") =>
            /\ sent' = <<[barcode |-> raw_barcode, mode |-> triggered_mode,
                          action |-> "mode", raw_barcode |-> <<>>,
                          input |-> <<>>]>>
            /\ extra' = extra
            /\ pc' = "read"]_vars

\* The trigger of a mode with enable_trigger_req and enable_input has been
\* dispatched, after the switch and with the new timer already started.
C20_Witness ==
    /\ pc = "read"
    /\ current_mode = "B"
    /\ ModeNamed(modes, "B").enable_input
    /\ sent = <<Payload(tT, "B", "mode", tT)>>
    /\ idle_timer # NoTimer
    /\ timers[idle_timer] = "pending"


\* The lines of which nothing is left after stripping and sanitizing
EmptyLines == {text \in Lines : sanitize_input(Strip(text)) = <<>>}

\* C21: a line that is empty after stripping whitespace and sanitizing has no
\* effect: find_mode is not called, nothing is dispatched or logged,
\* current_mode is unchanged, the idle timer is neither cancelled nor
\* rescheduled and the loop waits for the next line; and every token that
\* find_mode is called with is the non-empty, stripped and sanitized line just
\* read.
C21_EmptyLineNoEffect ==
    [][/\ (\E text \in EmptyLines : ReadLine(text)) =>
              /\ resolved' = <<>>
              /\ sent' = <<>>
              /\ events' = <<>>
              /\ pc' = "read"
              /\ UNCHANGED <<current_mode, idle_timer, timers, raw_barcode,
                             triggered_mode, effective_mode, ephemeral, extra>>
       /\ \A i \in 1..Len(resolved') :
              /\ resolved'[i] # <<>>
              /\ resolved'[i] = sanitize_input(Strip(line'))
              /\ ~HasChar(resolved'[i], ESC)
      ]_vars

\* A line of escape sequences only has just been read in a non-default mode
\* whose idle timer is pending, after an earlier scan.
C21_Witness ==
    /\ pc = "read"
    /\ line \in EmptyLines
    /\ HasChar(line, ESC)
    /\ barcode = <<>>
    /\ accesses = prompt_accesses
    /\ raw_barcode # <<>>
    /\ current_mode # default_mode
    /\ idle_timer # NoTimer
    /\ timers[idle_timer] = "pending"

====
